---------------------------- MODULE Spec2Model ----------------------------
(***************************************************************************)
(* Family food ordering: the tool server (src/server.py) with the          *)
(* authorization gateway it calls, and the conversation orchestrator       *)
(* (src/client.py, MCPClient.process_query).                               *)
(*                                                                         *)
(* Prices are kept in cents (10.99 is 1099).  A tool's return value is a   *)
(* record [kind, ...]; an exception leaving the tool function is the       *)
(* result [kind |-> "raise", exc |-> <type>].                              *)
(*                                                                         *)
(* The gateway (Permit.io) is not part of the repository.  Its behaviour   *)
(* is modelled from the interface description of the specification: the    *)
(* Gw... definitions.  The SDK calls (check, unassign_role) are taken to   *)
(* succeed; the REST calls made through httpx either reach the gateway,    *)
(* come back with an upstream error status, or fail on the network.        *)
(***************************************************************************)
EXTENDS Integers, Sequences, FiniteSets, TLC

VARIABLES
  users,        \* table users: sequence of [id, username, role]
  restaurants,  \* table restaurants: sequence of [id, name, allowed_for_children]
  dishes,       \* table dishes: sequence of [id, restaurant_id, name, price]
  synced,       \* gateway: the user keys known to it
  roles,        \* gateway: role assignments [user, role, inst]
  requests,     \* gateway: access / operation approval requests, id = index
  policy,       \* gateway: the part of the policy the repository does not fix
  last,         \* the last tool call: [tool, args, result, gw, fault]
  inflight,     \* the order_dish calls in flight: [pc, args, permitted, result]
  instances,    \* gateway: the keys of the restaurant resource instances
  bpc,          \* init_db: "idle", "instances", "sync", "assign", "commit",
                \* "done" or "failed"
  bidx,         \* init_db: position in its bulk_assign calls
  uncommitted,  \* init_db: the rows inserted and not yet committed
  outcomes      \* how the runs of init_db ended, in order

\* What init_db works on besides the tables, the users and the roles.
bvars == <<instances, bpc, bidx, uncommitted, outcomes>>

svars == <<users, restaurants, dishes, synced, roles, requests, policy, last,
           inflight, bvars>>

VARIABLES
  cpc,          \* process_query: "idle", "loop", "done" or "raised"
  messages,     \* the local list messages
  amc,          \* the local list assistant_message_content
  response0,    \* the content of the initial response, which the for loop iterates
  idx,          \* position of the for loop in response0
  final_text,   \* the local list final_text
  sent,         \* the message histories sent to the completion endpoint, in order
  responses,    \* the content of the responses it answered with, in order
  executed,     \* the ids of the tool invocations run through call_tool, in order
  returned,     \* the value process_query returned
  past,         \* the histories of the earlier calls of process_query, in order
  cl,           \* chat_loop and main: "loop", "exited" (left the while loop)
                \* or "closed" (cleanup has run)
  self_username, \* the attribute self.username, "" for None
  log           \* what the console showed: one [prompt, input, printed] per input

\* The locals of process_query and what is observed of it.
pqvars == <<cpc, messages, amc, response0, idx, final_text, sent, responses,
            executed, returned, past>>

\* The front-end: chat_loop and main.
fvars == <<cl, self_username, log>>

cvars == <<pqvars, fvars>>

vars == <<svars, cvars>>

---------------------------------------------------------------------------
(* Bounds *)

MaxRequests == 2

MaxBlocks == 2

MaxQueries == 2

MaxSessions == 2

MaxRuns == 3

MaxInputs == 3

---------------------------------------------------------------------------
(* Program constants, src/server.py *)

MAX_ALLOWED_DISH_PRICE == 10

TENANT == "default"

\* The names under which @mcp.tool() registers the ten functions.
ToolNames ==
  { "verify_access", "list_restaurants", "list_dishes", "order_dish",
    "request_restaurant_access", "request_dish_approval",
    "list_pending_restaurant_request", "list_pending_dish_request",
    "approve_restaurant_access", "approve_opeartion_request" }

\* init_db: the rows inserted when the restaurants table is empty.
users_data ==
  << [id |-> 1, username |-> "joe",   role |-> "parent"],
     [id |-> 2, username |-> "jane",  role |-> "parent"],
     [id |-> 3, username |-> "henry", role |-> "child"],
     [id |-> 4, username |-> "rose",  role |-> "child"] >>

restaurants_data ==
  << [id |-> 1, name |-> "Pizza Palace",   allowed_for_children |-> TRUE],
     [id |-> 2, name |-> "Burger Bonanza", allowed_for_children |-> TRUE],
     [id |-> 3, name |-> "Fancy French",   allowed_for_children |-> FALSE],
     [id |-> 4, name |-> "Sushi World",    allowed_for_children |-> FALSE] >>

dishes_data ==
  << [id |-> 1,  restaurant_id |-> 1, name |-> "Cheese Pizza",    price |-> 899],
     [id |-> 2,  restaurant_id |-> 1, name |-> "Pepperoni Pizza", price |-> 1099],
     [id |-> 3,  restaurant_id |-> 1, name |-> "Veggie Pizza",    price |-> 949],
     [id |-> 4,  restaurant_id |-> 2, name |-> "Classic Burger",  price |-> 799],
     [id |-> 5,  restaurant_id |-> 2, name |-> "Deluxe Burger",   price |-> 1299],
     [id |-> 6,  restaurant_id |-> 2, name |-> "Fries",           price |-> 349],
     [id |-> 7,  restaurant_id |-> 3, name |-> "Escargot",        price |-> 1599],
     [id |-> 8,  restaurant_id |-> 3, name |-> "Foie Gras",       price |-> 1999],
     [id |-> 9,  restaurant_id |-> 3, name |-> "Truffle Pasta",   price |-> 1849],
     [id |-> 10, restaurant_id |-> 4, name |-> "California Roll", price |-> 699],
     [id |-> 11, restaurant_id |-> 4, name |-> "Sushi Platter",   price |-> 2299],
     [id |-> 12, restaurant_id |-> 4, name |-> "Tempura",         price |-> 999] >>

---------------------------------------------------------------------------
(* Inputs the tools are called with *)

\* str.lower() on the usernames the tools are called with.
Lower(u) ==
  CASE u = "Henry" -> "henry"
    [] u = "Joe"   -> "joe"
    [] OTHER       -> u

\* The arguments each tool is called with: a seeded child, a seeded parent, an
\* unseeded name and a name in mixed case; a restaurant that allows children
\* (Pizza Palace), two that do not, and a name that does not exist.
VerifyUsers == {"henry", "Henry", "zed"}

ListDishesUsers == {"henry", "joe"}

ListDishesRestaurants == {"Pizza Palace", "Fancy French", "Nowhere"}

OrderUsers == {"henry", "joe", "zed"}

\* <<restaurant_name, dish_name>>
OrderTargets ==
  { <<"Pizza Palace", "Cheese Pizza">>, <<"Pizza Palace", "Pepperoni Pizza">>,
    <<"Sushi World", "California Roll">>, <<"Sushi World", "Sushi Platter">>,
    <<"Pizza Palace", "Nothing">>, <<"Nowhere", "Cheese Pizza">> }

RequestUsers == {"henry", "zed"}

RequestRestaurants == {"Fancy French", "Nowhere"}

RequestDishes == {"Pepperoni Pizza", "Nothing"}

ReviewUsers == {"joe", "henry"}

ListUsers == {"joe"}

ReviewRestaurants == {"Pizza Palace", "Fancy French", "Nowhere"}

CallPool == ToolNames \cup {"approve_operation_request", "delete_account"}

HttpOutcomes == {"reached", "upstream_error", "network_error"}

---------------------------------------------------------------------------
(* Helpers *)

SeqToSet(s) == {s[i] : i \in DOMAIN s}

\* cursor.fetchone(): <<>> stands for None, <<row>> for a row.
FetchOne(rows) == IF rows = <<>> THEN <<>> ELSE <<Head(rows)>>

\* f"{x:.2f}" of an amount given in cents.
Fmt2(cents) ==
  ToString(cents \div 100) \o "." \o
  (IF cents % 100 < 10 THEN "0" ELSE "") \o ToString(cents % 100)

Raise(exc)  == [kind |-> "raise", exc |-> exc]
Text(s)     == [kind |-> "text", text |-> s]
Rows(r)     == [kind |-> "rows", rows |-> r]
NoneResult  == [kind |-> "none"]

\* f"Request failed with status code {status}: {body}" and what the tool appends.
Failure(status, body, suffix) ==
  [kind |-> "failure", status |-> status, body |-> body, suffix |-> suffix]

Ack     == Text("Your request has been successfully sent. Please check back later.")
Granted == Text("Access has been granted")

GwOp(op, user, inst) == [op |-> op, user |-> user, inst |-> inst]

Call(tool, args, result, gw, fault) ==
  [tool |-> tool, args |-> args, result |-> result, gw |-> gw, fault |-> fault]

---------------------------------------------------------------------------
(* The authorization gateway *)

\* The actions a role grants on a restaurant instance under policy pol.
GwGrants(pol, role) ==
  CASE role = "parent"          ->
         IF pol.parentOperate THEN {"read", "operate"} ELSE {"read"}
    [] role = "child-can-order" -> {"read"}
    [] role = "_Approved_"      -> {"operate"}
    [] OTHER                    -> {}

\* The policy decision over the role assignments rs.
GwDecide(rs, pol, user, action, inst) ==
  \E a \in rs : a.user = user /\ a.inst = inst /\ action \in GwGrants(pol, a.role)

\* permit.check(user, action, f"restaurants:{inst}")
GwCheck(user, action, inst) == GwDecide(roles, policy, user, action, inst)

\* permit.api.users.unassign_role
GwUnassign(rs, user, role, inst) ==
  rs \ {[user |-> user, role |-> role, inst |-> inst]}

\* permit.elements.login_as: a token for a user the gateway knows.
GwLoginOk(user) == user \in synced

GwToken(user) == "token:" \o user

\* POST of an access request / operation approval: the new request, pending.
GwNewRequest(kind, user, payload) ==
  [kind   |-> kind,
   user   |-> user,
   inst   |-> payload.resource_instance,
   role   |-> payload.role,
   reason |-> payload.reason,
   status |-> "pending"]

\* Whether the gateway accepts the POST: the requesting user is known to it.
GwCreateOk(user) == user \in synced

\* GET: the ids of the requests of one kind scoped to an instance; with a
\* status filter in the query string when statusFilter is not "".
GwList(kind, inst, statusFilter) ==
  SelectSeq([i \in 1..Len(requests) |-> i],
            LAMBDA i : /\ requests[i].kind = kind
                       /\ requests[i].inst = inst
                       /\ (statusFilter = "" \/ requests[i].status = statusFilter))

\* PUT .../approve: accepted when the request exists, is of that kind, is
\* pending, and the acting user is a reviewer of its restaurant instance.
GwApproveOk(kind, actor, id) ==
  /\ id \in 1..Len(requests)
  /\ requests[id].kind = kind
  /\ requests[id].status = "pending"
  /\ [user |-> actor, role |-> "_Reviewer_", inst |-> requests[id].inst] \in roles

\* The role an approval assigns to the requester.
GwApprovedRole(kind, id, payloadRole) ==
  IF kind = "access" THEN payloadRole ELSE "_Approved_"

GwApprove(kind, id, payloadRole) ==
  /\ requests' = [requests EXCEPT ![id].status = "approved"]
  /\ roles' = roles \cup {[user |-> requests[id].user,
                           role |-> GwApprovedRole(kind, id, payloadRole),
                           inst |-> requests[id].inst]}

---------------------------------------------------------------------------
(* Bootstrap: the state init_db leaves behind *)

\* children_restaurants without the filter on allowed_for_children.
children_restaurants_unfiltered == restaurants_data

children_restaurants ==
  SelectSeq(restaurants_data, LAMBDA r : r.allowed_for_children)

\* The bulk_assign calls of init_db.
BootstrapRoles ==
  UNION { IF u.role = "parent"
          THEN {[user |-> u.username, role |-> rl, inst |-> r.id] :
                  rl \in {"parent", "_Reviewer_"}, r \in SeqToSet(restaurants_data)}
          ELSE IF u.role = "child"
          THEN {[user |-> u.username, role |-> "child-can-order", inst |-> r.id] :
                  r \in SeqToSet(children_restaurants)}
          ELSE {} : u \in SeqToSet(users_data) }

BootstrapSynced == {u.username : u \in SeqToSet(users_data)}

NoCall == Call("none", <<>>, NoneResult, <<>>, "none")

\* The transaction of init_db holds no row.
NoRows == [users |-> <<>>, restaurants |-> <<>>, dishes |-> <<>>]

\* The rows init_db inserts (lines 69-128).
SeedRows == [users |-> users_data, restaurants |-> restaurants_data,
             dishes |-> dishes_data]

\* The bulk_assign calls of init_db in the order the loop over the users makes
\* them (lines 155-184): for a parent the parent role, then _Reviewer_, on
\* every restaurant; for a child child-can-order on the children's restaurants.
BulkAssigns ==
  LET Of(u) ==
        IF u.role = "parent"
        THEN << {[user |-> u.username, role |-> "parent", inst |-> r.id] :
                   r \in SeqToSet(restaurants_data)},
                {[user |-> u.username, role |-> "_Reviewer_", inst |-> r.id] :
                   r \in SeqToSet(restaurants_data)} >>
        ELSE IF u.role = "child"
        THEN << {[user |-> u.username, role |-> "child-can-order", inst |-> r.id] :
                   r \in SeqToSet(children_restaurants)} >>
        ELSE << >>
  IN Of(users_data[1]) \o Of(users_data[2]) \o Of(users_data[3]) \o Of(users_data[4])

\* The sessions whose order_dish calls may be in flight at the same time.
Sessions == 1..MaxSessions

\* No order_dish call of the session is in flight.
NoOrder == [pc |-> "idle", args |-> <<>>, permitted |-> FALSE, result |-> NoneResult]

ServerInit ==
  /\ users = users_data
  /\ restaurants = restaurants_data
  /\ dishes = dishes_data
  /\ synced = BootstrapSynced
  /\ roles = BootstrapRoles
  /\ requests = <<>>
  /\ policy \in [parentOperate : BOOLEAN]
  /\ last = NoCall
  /\ inflight = [s \in Sessions |-> NoOrder]
  /\ instances = {r.id : r \in SeqToSet(restaurants_data)}
  /\ bpc = "done"
  /\ bidx = 0
  /\ uncommitted = NoRows
  /\ outcomes = <<"seeded">>

---------------------------------------------------------------------------
(* Catalog lookups *)

get_restaurant_by_name(restaurant_name) ==
  FetchOne(SelectSeq(restaurants, LAMBDA r : r.name = restaurant_name))

\* SELECT role FROM users WHERE username = ?
user_by_name(username) ==
  FetchOne(SelectSeq(users, LAMBDA u : u.username = username))

\* SELECT price FROM dishes WHERE name = ? AND restaurant_id = ?
dish_of_restaurant(dish_name, restaurant_id) ==
  FetchOne(SelectSeq(dishes, LAMBDA d : d.name = dish_name
                                        /\ d.restaurant_id = restaurant_id))

\* SELECT r.id FROM restaurants r JOIN dishes d ON r.id = d.restaurant_id
\* WHERE d.name = ?
restaurant_of_dish(dish_name) ==
  FetchOne(SelectSeq(dishes,
    LAMBDA d : d.name = dish_name
               /\ \E i \in DOMAIN restaurants : restaurants[i].id = d.restaurant_id))

---------------------------------------------------------------------------
(* The tools of src/server.py *)

catalog == <<users, restaurants, dishes>>

gateway == <<synced, roles, requests, policy>>

\* verify_access that inserts a row for a name it does not find.
verify_access_registering(username) ==
  LET result == user_by_name(username) IN
  /\ last' = Call("verify_access", <<username>>,
                  IF result = <<>> THEN NoneResult
                  ELSE [kind |-> "role", role |-> result[1].role],
                  <<>>, "none")
  /\ users' = IF result = <<>>
              THEN Append(users, [id |-> Len(users) + 1, username |-> username,
                                  role |-> "child"])
              ELSE users
  /\ UNCHANGED <<restaurants, dishes, gateway, cvars, inflight, bvars>>

verify_access(username) ==
  LET result == user_by_name(username) IN
  /\ last' = Call("verify_access", <<username>>,
                  IF result = <<>> THEN NoneResult
                  ELSE [kind |-> "role", role |-> result[1].role],
                  <<>>, "none")
  /\ UNCHANGED <<catalog, gateway, cvars, inflight, bvars>>

list_restaurants ==
  LET rows == [i \in DOMAIN restaurants |->
                 <<restaurants[i].name, restaurants[i].allowed_for_children>>] IN
  /\ last' = Call("list_restaurants", <<>>,
                  IF rows = <<>> THEN Text("No restaurants available.") ELSE Rows(rows),
                  <<>>, "none")
  /\ UNCHANGED <<catalog, gateway, cvars, inflight, bvars>>

\* The value list_dishes returns; it changes no state.
list_dishes_result(username, restaurant_name) ==
  LET u == Lower(username)
      restaurant == get_restaurant_by_name(restaurant_name)
  IN IF restaurant = <<>> THEN Text("Restaurant not found")
     ELSE IF ~GwCheck(u, "read", restaurant[1].id)
          THEN Text("Access denied. You are not permitted to view dishes from this restaurant.")
          ELSE LET found == SelectSeq(dishes,
                              LAMBDA d : d.restaurant_id = restaurant[1].id)
                   rows == [i \in DOMAIN found |-> <<found[i].name, found[i].price>>]
               IN IF rows = <<>> THEN Text("No dishes available for this restaurant.")
                  ELSE Rows(rows)

list_dishes(username, restaurant_name) ==
  LET restaurant == get_restaurant_by_name(restaurant_name) IN
  /\ last' = Call("list_dishes", <<username, restaurant_name>>,
                  list_dishes_result(username, restaurant_name),
                  IF restaurant = <<>> THEN <<>>
                  ELSE <<GwOp("check read", Lower(username), restaurant[1].id)>>,
                  "none")
  /\ UNCHANGED <<catalog, gateway, cvars, inflight, bvars>>

\* order_dish_refused without the operate check: a grant no longer lifts the limit.
order_dish_refused_ignoring_grant(role, price, permitted) ==
  role = "child" /\ price > MAX_ALLOWED_DISH_PRICE * 100

\* The price restriction for children.
order_dish_refused(role, price, permitted) ==
  role = "child" /\ price > MAX_ALLOWED_DISH_PRICE * 100 /\ ~permitted

\* order_dish_revoke without the unassign_role call: the grant stays.
order_dish_revoke_skipped(permitted, username, inst) == roles

\* The role assignments after a placed order.
order_dish_revoke(permitted, username, inst) ==
  IF permitted THEN GwUnassign(roles, username, "_Approved_", inst) ELSE roles

Refusal(price) ==
  [kind |-> "refusal", price |-> Fmt2(price),
   limit |-> Fmt2(MAX_ALLOWED_DISH_PRICE * 100)]

Confirmation(dish_name, restaurant_name) ==
  [kind |-> "confirmation", dish |-> dish_name, restaurant |-> restaurant_name]

order_dish(username, restaurant_name, dish_name) ==
  LET u == Lower(username)
      restaurant == get_restaurant_by_name(restaurant_name)
      args == <<username, restaurant_name, dish_name>>
  IN
  /\ UNCHANGED <<catalog, synced, requests, policy, cvars, inflight, bvars>>
  /\ IF restaurant = <<>>
     THEN /\ last' = Call("order_dish", args, Text("Restaurant not found."), <<>>, "none")
          /\ roles' = roles
     ELSE
     LET inst == restaurant[1].id
         dish == dish_of_restaurant(dish_name, inst)
     IN
     IF dish = <<>>
     THEN /\ last' = Call("order_dish", args, Text("Dish not found."), <<>>, "none")
          /\ roles' = roles
     ELSE
     LET user == user_by_name(u)
         permitted == GwCheck(u, "operate", inst)
         checked == <<GwOp("check operate", u, inst)>>
     IN
     IF user = <<>>
     THEN \* user is None: user[0] raises
          /\ last' = Call("order_dish", args, Raise("TypeError"), checked, "none")
          /\ roles' = roles
     ELSE IF order_dish_refused(user[1].role, dish[1].price, permitted)
     THEN /\ last' = Call("order_dish", args, Refusal(dish[1].price), checked, "none")
          /\ roles' = roles
     ELSE /\ last' = Call("order_dish", args, Confirmation(dish_name, restaurant_name),
                          IF permitted
                          THEN checked \o <<GwOp("unassign_role _Approved_", u, inst)>>
                          ELSE checked,
                          "none")
          /\ roles' = order_dish_revoke(permitted, u, inst)

\* order_dish of session s up to the return of await permit.check (lines
\* 284-310): the lookups, then the check, whose answer is held in the local
\* permitted while the call is suspended.
order_dish_check(s, username, restaurant_name, dish_name) ==
  LET u == Lower(username)
      restaurant == get_restaurant_by_name(restaurant_name)
      args == <<username, restaurant_name, dish_name>>
      Returned(result) == [pc |-> "done", args |-> args, permitted |-> FALSE,
                           result |-> result]
  IN
  /\ inflight[s].pc = "idle"
  /\ UNCHANGED <<catalog, gateway, cvars, bvars>>
  /\ IF restaurant = <<>>
     THEN /\ inflight' = [inflight EXCEPT ![s] = Returned(Text("Restaurant not found."))]
          /\ last' = Call("order_dish", args, Text("Restaurant not found."), <<>>, "none")
     ELSE
     IF dish_of_restaurant(dish_name, restaurant[1].id) = <<>>
     THEN /\ inflight' = [inflight EXCEPT ![s] = Returned(Text("Dish not found."))]
          /\ last' = Call("order_dish", args, Text("Dish not found."), <<>>, "none")
     ELSE /\ inflight' = [inflight EXCEPT ![s] =
                            [pc |-> "checked", args |-> args,
                             permitted |-> GwCheck(u, "operate", restaurant[1].id),
                             result |-> NoneResult]]
          /\ last' = last

\* order_dish of session s from the return of the check to its own return
\* (lines 313-322): the price restriction on the answer held in permitted,
\* the unassign_role call, the confirmation.
order_dish_finish(s) ==
  LET args == inflight[s].args
      u == Lower(args[1])
      restaurant == get_restaurant_by_name(args[2])
      inst == restaurant[1].id
      dish == dish_of_restaurant(args[3], inst)
      user == user_by_name(u)
      permitted == inflight[s].permitted
      checked == <<GwOp("check operate", u, inst)>>
      result == IF user = <<>> THEN Raise("TypeError")
                ELSE IF order_dish_refused(user[1].role, dish[1].price, permitted)
                THEN Refusal(dish[1].price)
                ELSE Confirmation(args[3], args[2])
  IN
  /\ inflight[s].pc = "checked"
  /\ inflight' = [inflight EXCEPT ![s].pc = "done", ![s].result = result]
  /\ last' = Call("order_dish", args, result,
                  IF result.kind = "confirmation" /\ permitted
                  THEN checked \o <<GwOp("unassign_role _Approved_", u, inst)>>
                  ELSE checked,
                  "none")
  /\ roles' = IF result.kind = "confirmation"
              THEN order_dish_revoke(permitted, u, inst)
              ELSE roles
  /\ UNCHANGED <<catalog, synced, requests, policy, cvars, bvars>>

\* The JSON body request_restaurant_access posts.
access_request_payload(username, restaurant) ==
  [resource_instance |-> restaurant.id,
   role   |-> "child-can-order",
   reason |-> [user |-> username, role |-> "child-can-order",
               restaurant |-> restaurant.name, dish |-> ""]]

request_restaurant_access(username, restaurant_name, outcome) ==
  LET u == Lower(username)
      restaurant == get_restaurant_by_name(restaurant_name)
      args == <<username, restaurant_name>>
      tool == "request_restaurant_access"
  IN
  /\ UNCHANGED <<catalog, synced, roles, policy, cvars, inflight, bvars>>
  /\ IF restaurant = <<>>
     THEN /\ last' = Call(tool, args, Text("Restaurant not found."), <<>>, "none")
          /\ requests' = requests
     ELSE
     LET inst == restaurant[1].id
         post == <<GwOp("POST access_request", u, inst)>>
     IN
     CASE outcome = "network_error" ->
            /\ last' = Call(tool, args, Raise("httpx.RequestError"), post, "network")
            /\ requests' = requests
       [] outcome = "upstream_error" ->
            /\ last' = Call(tool, args, Failure(500, "upstream error", ToString(inst)),
                            post, "upstream")
            /\ requests' = requests
       [] outcome = "reached" /\ ~GwCreateOk(u) ->
            /\ last' = Call(tool, args, Failure(404, "user not found", ToString(inst)),
                            post, "rejected")
            /\ requests' = requests
       [] outcome = "reached" /\ GwCreateOk(u) ->
            /\ Len(requests) < MaxRequests
            /\ last' = Call(tool, args, Ack, post, "none")
            /\ requests' = Append(requests,
                 GwNewRequest("access", u, access_request_payload(u, restaurant[1])))

\* The JSON body request_dish_approval posts; restaurant is the row (r.id).
operation_approval_payload(username, dish_name, restaurant) ==
  [resource_instance |-> restaurant.restaurant_id,
   role   |-> "",
   reason |-> [user |-> username, role |-> "", restaurant |-> "", dish |-> dish_name]]

request_dish_approval(username, dish_name, outcome) ==
  LET u == Lower(username)
      restaurant == restaurant_of_dish(dish_name)
      args == <<username, dish_name>>
      tool == "request_dish_approval"
      login == <<GwOp("login_as", u, 0)>>
  IN
  /\ UNCHANGED <<catalog, synced, roles, policy, cvars, inflight, bvars>>
  /\ IF ~GwLoginOk(u)
     THEN /\ last' = Call(tool, args, Raise("PermitApiError"), login, "login")
          /\ requests' = requests
     ELSE IF restaurant = <<>>
     THEN \* restaurant is None: restaurant[0] raises while the payload is built
          /\ last' = Call(tool, args, Raise("TypeError"), login, "none")
          /\ requests' = requests
     ELSE
     LET inst == restaurant[1].restaurant_id
         post == login \o <<GwOp("POST operation_approval", u, inst)>>
     IN
     CASE outcome = "network_error" ->
            /\ last' = Call(tool, args, Raise("httpx.RequestError"), post, "network")
            /\ requests' = requests
       [] outcome = "upstream_error" ->
            /\ last' = Call(tool, args, Failure(500, "upstream error", ""), post, "upstream")
            /\ requests' = requests
       [] outcome = "reached" ->
            /\ Len(requests) < MaxRequests
            /\ last' = Call(tool, args, Ack, post, "none")
            /\ requests' = Append(requests,
                 GwNewRequest("operation", u,
                              operation_approval_payload(u, dish_name, restaurant[1])))

\* filtered_data without the test of item['status'].
filtered_data_unfiltered(ids) ==
  [k \in DOMAIN ids |->
     [access_request_id |-> ids[k], reason |-> requests[ids[k]].reason]]

\* The list comprehension over data['data'] of both list tools.
filtered_data(ids) ==
  LET pending == SelectSeq(ids, LAMBDA i : requests[i].status = "pending") IN
  [k \in DOMAIN pending |->
     [access_request_id |-> pending[k], reason |-> requests[pending[k]].reason]]

\* The value list_pending_restaurant_request returns; it changes no state.
list_pending_restaurant_request_result(username, restaurant_name, outcome) ==
  LET restaurant == get_restaurant_by_name(restaurant_name) IN
  IF restaurant = <<>> THEN Text("Restaurant not found.")
  ELSE CASE outcome = "network_error"  -> Raise("httpx.RequestError")
         [] outcome = "upstream_error" ->
              Failure(500, "upstream error", ToString(restaurant[1].id))
         [] outcome = "reached" ->
              Rows(filtered_data(GwList("access", restaurant[1].id, "")))

Fault(outcome) ==
  CASE outcome = "network_error"  -> "network"
    [] outcome = "upstream_error" -> "upstream"
    [] OTHER                      -> "none"

list_pending_restaurant_request(username, restaurant_name, outcome) ==
  LET u == Lower(username)
      restaurant == get_restaurant_by_name(restaurant_name)
  IN
  /\ last' = Call("list_pending_restaurant_request", <<username, restaurant_name>>,
                  list_pending_restaurant_request_result(username, restaurant_name, outcome),
                  IF restaurant = <<>> THEN <<>>
                  ELSE <<GwOp("GET access_requests", u, restaurant[1].id)>>,
                  IF restaurant = <<>> THEN "none" ELSE Fault(outcome))
  /\ UNCHANGED <<catalog, gateway, cvars, inflight, bvars>>

list_pending_dish_request(username, restaurant_name, outcome) ==
  LET u == Lower(username)
      restaurant == get_restaurant_by_name(restaurant_name)
      args == <<username, restaurant_name>>
      tool == "list_pending_dish_request"
      login == <<GwOp("login_as", u, 0)>>
  IN
  /\ UNCHANGED <<catalog, gateway, cvars, inflight, bvars>>
  /\ IF ~GwLoginOk(u)
     THEN last' = Call(tool, args, Raise("PermitApiError"), login, "login")
     ELSE IF restaurant = <<>>
     THEN last' = Call(tool, args, Text("Restaurant not found."), login, "none")
     ELSE
     LET inst == restaurant[1].id
         get == login \o <<GwOp("GET operation_approval", u, inst)>>
     IN
     CASE outcome = "network_error" ->
            last' = Call(tool, args, Raise("httpx.RequestError"), get, "network")
       [] outcome = "upstream_error" ->
            last' = Call(tool, args, Failure(500, "upstream error", ""), get, "upstream")
       [] outcome = "reached" ->
            last' = Call(tool, args,
                         Rows(filtered_data(GwList("operation", inst, "pending"))),
                         get, "none")

\* The user on whose behalf approve_restaurant_access calls the gateway.
approve_access_actor(username) == username

\* approve_access_payload with a role key the policy does not know.
approve_access_payload_misspelt ==
  [reviewer_comment |-> "grown up child", role |-> "child_can_order"]

\* The JSON body approve_restaurant_access puts.
approve_access_payload ==
  [reviewer_comment |-> "grown up child", role |-> "child-can-order"]

approve_restaurant_access(username, access_request_id, outcome) ==
  LET args == <<username, access_request_id>>
      tool == "approve_restaurant_access"
      actor == approve_access_actor(username)
      put == <<GwOp("PUT access_request approve", actor, access_request_id)>>
  IN
  /\ UNCHANGED <<catalog, synced, policy, cvars, inflight, bvars>>
  /\ CASE outcome = "network_error" ->
            /\ last' = Call(tool, args, Raise("httpx.RequestError"), put, "network")
            /\ UNCHANGED <<roles, requests>>
       [] outcome = "upstream_error" ->
            /\ last' = Call(tool, args, Failure(500, "upstream error", ""), put, "upstream")
            /\ UNCHANGED <<roles, requests>>
       [] outcome = "reached" /\ ~GwApproveOk("access", actor, access_request_id) ->
            /\ last' = Call(tool, args, Failure(403, "not allowed", ""), put, "rejected")
            /\ UNCHANGED <<roles, requests>>
       [] outcome = "reached" /\ GwApproveOk("access", actor, access_request_id) ->
            /\ last' = Call(tool, args, Granted, put, "none")
            /\ GwApprove("access", access_request_id, approve_access_payload.role)

\* approve_operation_actor with a fixed reviewer in place of the caller.
approve_operation_actor_fixed(username) == "joe"

\* The user approve_opeartion_request logs in as.
approve_operation_actor(username) == username

approve_opeartion_request(username, operation_approval_id, outcome) ==
  LET args == <<username, operation_approval_id>>
      tool == "approve_opeartion_request"
      actor == approve_operation_actor(username)
      login == <<GwOp("login_as", actor, 0)>>
      put == login \o <<GwOp("PUT operation_approval approve", actor,
                             operation_approval_id)>>
  IN
  /\ UNCHANGED <<catalog, synced, policy, cvars, inflight, bvars>>
  /\ IF ~GwLoginOk(actor)
     THEN /\ last' = Call(tool, args, Raise("PermitApiError"), login, "login")
          /\ UNCHANGED <<roles, requests>>
     ELSE
     CASE outcome = "network_error" ->
            /\ last' = Call(tool, args, Raise("httpx.RequestError"), put, "network")
            /\ UNCHANGED <<roles, requests>>
       [] outcome = "upstream_error" ->
            /\ last' = Call(tool, args,
                            Failure(500, "upstream error", GwToken(actor)), put, "upstream")
            /\ UNCHANGED <<roles, requests>>
       [] outcome = "reached" /\ ~GwApproveOk("operation", actor, operation_approval_id) ->
            /\ last' = Call(tool, args,
                            Failure(403, "not allowed", GwToken(actor)), put, "rejected")
            /\ UNCHANGED <<roles, requests>>
       [] outcome = "reached" /\ GwApproveOk("operation", actor, operation_approval_id) ->
            /\ last' = Call(tool, args, Granted, put, "none")
            /\ GwApprove("operation", operation_approval_id, "")

\* A name the registry does not hold: the dispatcher's error result.
unknown_tool(name) ==
  /\ last' = Call(name, <<>>, [kind |-> "unknown_tool", name |-> name], <<>>, "none")
  /\ UNCHANGED <<catalog, gateway, cvars, inflight, bvars>>

RequestIds == 1..MaxRequests

\* FastMCP's dispatch of a tools/call request by the registered name.
call_tool(name) ==
  \/ /\ name \in ToolNames /\ name = "verify_access"
     /\ \E u \in VerifyUsers : verify_access(u)
  \/ /\ name \in ToolNames /\ name = "list_restaurants"
     /\ list_restaurants
  \/ /\ name \in ToolNames /\ name = "list_dishes"
     /\ \E u \in ListDishesUsers, r \in ListDishesRestaurants : list_dishes(u, r)
  \/ /\ name \in ToolNames /\ name = "order_dish"
     /\ \E u \in OrderUsers, t \in OrderTargets : order_dish(u, t[1], t[2])
  \/ /\ name \in ToolNames /\ name = "request_restaurant_access"
     /\ \E u \in RequestUsers, r \in RequestRestaurants, o \in HttpOutcomes :
          request_restaurant_access(u, r, o)
  \/ /\ name \in ToolNames /\ name = "request_dish_approval"
     /\ \E u \in RequestUsers, d \in RequestDishes, o \in HttpOutcomes :
          request_dish_approval(u, d, o)
  \/ /\ name \in ToolNames /\ name = "list_pending_restaurant_request"
     /\ \E u \in ListUsers, r \in ReviewRestaurants, o \in HttpOutcomes :
          list_pending_restaurant_request(u, r, o)
  \/ /\ name \in ToolNames /\ name = "list_pending_dish_request"
     /\ \E u \in ListUsers \cup {"zed"}, r \in ReviewRestaurants, o \in HttpOutcomes :
          list_pending_dish_request(u, r, o)
  \/ /\ name \in ToolNames /\ name = "approve_restaurant_access"
     /\ \E u \in ReviewUsers, i \in RequestIds, o \in HttpOutcomes :
          approve_restaurant_access(u, i, o)
  \/ /\ name \in ToolNames /\ name = "approve_opeartion_request"
     /\ \E u \in ReviewUsers, i \in RequestIds, o \in HttpOutcomes :
          approve_opeartion_request(u, i, o)
  \/ /\ name \notin ToolNames
     /\ unknown_tool(name)

---------------------------------------------------------------------------
(* init_db, step by step: its gateway calls may fail *)

\* The database file does not exist and the gateway knows nothing.
EmptyInit ==
  /\ users = <<>>
  /\ restaurants = <<>>
  /\ dishes = <<>>
  /\ synced = {}
  /\ roles = {}
  /\ requests = <<>>
  /\ policy \in [parentOperate : BOOLEAN]
  /\ last = NoCall
  /\ inflight = [s \in Sessions |-> NoOrder]
  /\ instances = {}
  /\ bpc = "idle"
  /\ bidx = 0
  /\ uncommitted = NoRows
  /\ outcomes = <<>>

\* An exception leaves init_db: the connection is closed without commit, the
\* inserted rows are gone, and the process ends before mcp.run.
init_db_raises ==
  /\ bpc' = "failed"
  /\ bidx' = 0
  /\ uncommitted' = NoRows
  /\ outcomes' = Append(outcomes, "failed")

\* init_db_begin on a connection that commits every statement at once.
init_db_begin_autocommit ==
  /\ bpc \in {"idle", "done", "failed"}
  /\ Len(outcomes) < MaxRuns
  /\ IF restaurants = <<>>
     THEN /\ uncommitted' = SeedRows
          /\ users' = users_data
          /\ restaurants' = restaurants_data
          /\ dishes' = dishes_data
          /\ bpc' = "instances"
     ELSE /\ uncommitted' = NoRows
          /\ bpc' = "commit"
          /\ UNCHANGED catalog
  /\ UNCHANGED <<gateway, last, inflight, instances, bidx, outcomes, cvars>>

\* Lines 37-128: the process starts, the tables are created if missing, and
\* when restaurants is empty the rows are inserted in a transaction.
init_db_begin ==
  /\ bpc \in {"idle", "done", "failed"}
  /\ Len(outcomes) < MaxRuns
  /\ IF restaurants = <<>>
     THEN uncommitted' = SeedRows /\ bpc' = "instances"
     ELSE uncommitted' = NoRows /\ bpc' = "commit"
  /\ UNCHANGED <<catalog, gateway, last, inflight, instances, bidx, outcomes, cvars>>

\* Lines 130-138: resource_instances.create for every restaurant, gathered.
\* When one of them fails any of the others may have been created.
init_db_instances ==
  /\ bpc = "instances"
  /\ LET keys == {r.id : r \in SeqToSet(uncommitted.restaurants)} IN
     \/ /\ instances' = instances \cup keys
        /\ bpc' = "sync"
        /\ UNCHANGED <<bidx, uncommitted, outcomes>>
     \/ /\ \E done \in SUBSET keys : done # keys /\ instances' = instances \cup done
        /\ init_db_raises
  /\ UNCHANGED <<catalog, gateway, last, inflight, cvars>>

\* Lines 140-149: sync_user for every user, gathered.
init_db_sync ==
  /\ bpc = "sync"
  /\ LET keys == {u.username : u \in SeqToSet(uncommitted.users)} IN
     \/ /\ synced' = synced \cup keys
        /\ bpc' = "assign"
        /\ bidx' = 1
        /\ UNCHANGED <<uncommitted, outcomes>>
     \/ /\ \E done \in SUBSET keys : done # keys /\ synced' = synced \cup done
        /\ init_db_raises
  /\ UNCHANGED <<catalog, roles, requests, policy, last, inflight, instances, cvars>>

\* Lines 155-184: one bulk_assign call of the loop over the users.
init_db_assign ==
  /\ bpc = "assign"
  /\ \/ /\ roles' = roles \cup BulkAssigns[bidx]
        /\ IF bidx < Len(BulkAssigns)
           THEN bidx' = bidx + 1 /\ bpc' = bpc
           ELSE bidx' = 0 /\ bpc' = "commit"
        /\ UNCHANGED <<uncommitted, outcomes>>
     \/ /\ roles' = roles
        /\ init_db_raises
  /\ UNCHANGED <<catalog, synced, requests, policy, last, inflight, instances, cvars>>

\* Line 185: db.commit(), with rows to commit or none.
init_db_commit ==
  /\ bpc = "commit"
  /\ IF uncommitted = NoRows
     THEN /\ UNCHANGED catalog
          /\ outcomes' = Append(outcomes, "skipped")
     ELSE /\ users' = uncommitted.users
          /\ restaurants' = uncommitted.restaurants
          /\ dishes' = uncommitted.dishes
          /\ outcomes' = Append(outcomes, "seeded")
  /\ uncommitted' = NoRows
  /\ bpc' = "done"
  /\ UNCHANGED <<gateway, last, inflight, instances, bidx, cvars>>

BootstrapNext ==
  \/ init_db_begin
  \/ init_db_instances
  \/ init_db_sync
  \/ init_db_assign
  \/ init_db_commit

ServerNext == \E name \in CallPool : call_tool(name)

---------------------------------------------------------------------------
(* The orchestrator: MCPClient.process_query of src/client.py *)

TextBlock(n) == [type |-> "text", text |-> "text" \o ToString(n)]

ToolUseBlock(n) ==
  [type |-> "tool_use", id |-> n, name |-> "list_restaurants", input |-> "{}"]

\* The content lists the completion endpoint may answer with: up to MaxBlocks
\* segments, each free text or a tool invocation; invocation ids are fresh
\* (numbered on from n0) and text segments are told apart by their position.
Responses(n0) ==
  UNION { { [i \in 1..n |->
               IF shape[i] = "text" THEN TextBlock(n0 + i)
               ELSE ToolUseBlock(n0 + i)] :
            shape \in [1..n -> {"text", "tool_use"}] } : n \in 0..MaxBlocks }

ToolUses(content) == {content[i] : i \in {k \in DOMAIN content : content[k].type = "tool_use"}}

\* Every tool invocation the model has emitted so far.
Emitted == UNION {ToolUses(responses[j]) : j \in DOMAIN responses}

\* The number the next response's segments are numbered from.
Fresh == Len(responses) * (MaxBlocks + 1)

\* What call_tool hands back: the tool's result, or its error payload.
ToolResults == {"result", "error"}

UserMessage(query) ==
  [role |-> "user", content |-> <<[type |-> "text", text |-> query]>>]

\* The assistant turn holds the list assistant_message_content itself, not a
\* copy: its content is whatever that list holds when the history is read.
AssistantMessage == [role |-> "assistant", content |-> "assistant_message_content"]

ToolResultMessage(id, result) ==
  [role |-> "user",
   content |-> <<[type |-> "tool_result", tool_use_id |-> id, content |-> result]>>]

\* The history as anthropic.messages.create serialises it.
Serialise(msgs, content) ==
  [i \in DOMAIN msgs |->
     IF msgs[i].role = "assistant"
     THEN [role |-> "assistant", content |-> content]
     ELSE msgs[i]]

TraceLine(block) ==
  "[Calling tool " \o block.name \o " with args " \o block.input \o "]"

RECURSIVE Join(_)
\* "\n".join(final_text)
Join(texts) ==
  IF texts = <<>> THEN ""
  ELSE IF Len(texts) = 1 THEN texts[1]
  ELSE texts[1] \o "\n" \o Join(Tail(texts))

ClientIdle ==
  /\ cpc = "idle"
  /\ messages = <<>>
  /\ amc = <<>>
  /\ response0 = <<>>
  /\ idx = 0
  /\ final_text = <<>>
  /\ sent = <<>>
  /\ responses = <<>>
  /\ executed = <<>>
  /\ returned = ""
  /\ past = <<>>
  /\ cl = "loop"
  /\ self_username = ""
  /\ log = <<>>

\* Lines 59-84: the query becomes the history, the initial completion is requested.
process_query_start(query) ==
  /\ cpc = "idle"
  /\ \E r \in Responses(Fresh) :
       /\ messages' = <<UserMessage(query)>>
       /\ sent' = <<Serialise(<<UserMessage(query)>>, <<>>)>>
       /\ responses' = <<r>>
       /\ response0' = r
  /\ idx' = 1
  /\ amc' = <<>>
  /\ final_text' = <<>>
  /\ cpc' = "loop"
  /\ UNCHANGED <<executed, returned, past, svars, fvars>>

\* Lines 74-79 when the connection to the model is lost: create raises.
process_query_start_fails(query) ==
  /\ cpc = "idle"
  /\ messages' = <<UserMessage(query)>>
  /\ cpc' = "raised"
  /\ UNCHANGED <<amc, response0, idx, final_text, sent, responses, executed,
                 returned, past, svars, fvars>>

\* loop_text without line 87: the segment's text is not accumulated.
loop_text_unrecorded ==
  /\ cpc = "loop"
  /\ idx <= Len(response0)
  /\ response0[idx].type = "text"
  /\ amc' = Append(amc, response0[idx])
  /\ idx' = idx + 1
  /\ UNCHANGED <<cpc, messages, response0, final_text, sent, responses, executed,
                 returned, past, svars, fvars>>

\* Lines 86-88: a text segment of the initial response.
loop_text ==
  /\ cpc = "loop"
  /\ idx <= Len(response0)
  /\ response0[idx].type = "text"
  /\ final_text' = Append(final_text, response0[idx].text)
  /\ amc' = Append(amc, response0[idx])
  /\ idx' = idx + 1
  /\ UNCHANGED <<cpc, messages, response0, sent, responses, executed, returned, past, svars, fvars>>

\* messages_after_tool keeping an error payload out of the history.
messages_after_tool_dropping_errors(content, result) ==
  IF result = "error" THEN Append(messages, AssistantMessage)
  ELSE messages \o <<AssistantMessage, ToolResultMessage(content.id, result)>>

\* The history after lines 98-112.
messages_after_tool(content, result) ==
  messages \o <<AssistantMessage, ToolResultMessage(content.id, result)>>

\* Lines 89-122: a tool invocation of the initial response.
loop_tool_use ==
  /\ cpc = "loop"
  /\ idx <= Len(response0)
  /\ response0[idx].type = "tool_use"
  /\ LET content == response0[idx] IN
     \E result \in ToolResults, r \in Responses(Fresh) :
       /\ executed' = Append(executed, content.id)
       /\ amc' = Append(amc, content)
       /\ messages' = messages_after_tool(content, result)
       /\ sent' = Append(sent, Serialise(messages_after_tool(content, result),
                                          Append(amc, content)))
       /\ responses' = Append(responses, r)
       /\ IF r # <<>> /\ r[1].type = "text"
          THEN /\ final_text' = final_text \o <<TraceLine(content), r[1].text>>
               /\ idx' = idx + 1
               /\ cpc' = cpc
          ELSE \* response.content[0].text: IndexError on an empty content list,
               \* AttributeError on a tool_use segment
               /\ final_text' = Append(final_text, TraceLine(content))
               /\ idx' = idx
               /\ cpc' = "raised"
  /\ UNCHANGED <<response0, returned, past, svars, fvars>>

\* Line 94 when the connection to the tool process is lost: call_tool raises.
loop_tool_use_fails ==
  /\ cpc = "loop"
  /\ idx <= Len(response0)
  /\ response0[idx].type = "tool_use"
  /\ cpc' = "raised"
  /\ UNCHANGED <<messages, amc, response0, idx, final_text, sent, responses,
                 executed, returned, past, svars, fvars>>

\* Line 124: the for loop over the initial response is exhausted.
process_query_return ==
  /\ cpc = "loop"
  /\ idx > Len(response0)
  /\ returned' = Join(final_text)
  /\ cpc' = "done"
  /\ UNCHANGED <<messages, amc, response0, idx, final_text, sent, responses,
                 executed, past, svars, fvars>>

\* Lines 57-64 for a further call on the same MCPClient: the call before has
\* returned or raised, its locals are gone, and nothing of them is an
\* attribute of the object.
process_query_again ==
  /\ cpc \in {"done", "raised"}
  /\ Len(past) < MaxQueries - 1
  /\ past' = Append(past, Serialise(messages, amc))
  /\ cpc' = "idle"
  /\ messages' = <<>>
  /\ amc' = <<>>
  /\ response0' = <<>>
  /\ idx' = 0
  /\ final_text' = <<>>
  /\ sent' = <<>>
  /\ responses' = <<>>
  /\ executed' = <<>>
  /\ returned' = ""
  /\ UNCHANGED <<svars, fvars>>

Queries == {"order a pizza"}

ClientNext ==
  \/ \E q \in Queries : process_query_start(q)
  \/ \E q \in Queries : process_query_start_fails(q)
  \/ loop_text
  \/ loop_tool_use
  \/ loop_tool_use_fails
  \/ process_query_return

---------------------------------------------------------------------------
(* Specifications *)

Init == ServerInit /\ ClientIdle

\* The tool server under any sequence of tool calls.
Next == ServerNext

Spec == Init /\ [][Next]_vars

\* One run of process_query against the completion endpoint.
SpecClient == Init /\ [][ClientNext]_vars

\* The orders placed at the same time: a child, a dish above the threshold,
\* one below it, and a dish that does not exist.
ConcurrentOrders ==
  { <<"henry", "Pizza Palace", "Pepperoni Pizza">>,
    <<"henry", "Pizza Palace", "Cheese Pizza">>,
    <<"henry", "Pizza Palace", "Nothing">> }

\* order_dish calls of several sessions in flight together, next to the
\* request and the approval of a one-time grant.
OrdersNext ==
  \/ \E s \in Sessions, o \in ConcurrentOrders : order_dish_check(s, o[1], o[2], o[3])
  \/ \E s \in Sessions : order_dish_finish(s)
  \/ \E o \in HttpOutcomes : request_dish_approval("henry", "Pepperoni Pizza", o)
  \/ \E id \in RequestIds, o \in HttpOutcomes : approve_opeartion_request("joe", id, o)

SpecOrders == Init /\ [][OrdersNext]_vars

\* The runs of init_db from an empty database file on.
BootstrapInit == EmptyInit /\ ClientIdle

SpecBootstrap == BootstrapInit /\ [][BootstrapNext]_vars

---------------------------------------------------------------------------
(* The front-end: MCPClient.chat_loop and main of src/client.py *)

\* What is typed at the console: quit, an empty line, the name of a seeded
\* child (also capitalised), of a seeded parent and of nobody, and a query.
ConsoleInputs == {"quit", "", "henry", "Henry", "joe", "zed", "order a pizza"}

\* How a remote call made during the turn ends: it returns, or the
\* connection is lost and it raises.
TurnOutcomes == {"returns", "transport_failure"}

Shown(prompt, input, printed) ==
  [prompt |-> prompt, input |-> input, printed |-> printed]

\* chat_loop_except without the try: the exception leaves the while loop.
chat_loop_uncaught(prompt, input) ==
  /\ log' = Append(log, Shown(prompt, input, "Error"))
  /\ cl' = "exited"

\* Lines 157-158: the exception raised during the turn is caught and printed,
\* and the while loop goes on.
chat_loop_except(prompt, input) ==
  /\ log' = Append(log, Shown(prompt, input, "Error"))
  /\ cl' = cl

\* One pass of the while loop (lines 131-158): the prompt, the input, the
\* call made for it, what is printed, and whether the loop is left.
chat_loop ==
  /\ cl = "loop"
  /\ Len(log) < MaxInputs
  /\ \E input \in ConsoleInputs, outcome \in TurnOutcomes :
       IF self_username = ""
       THEN \* lines 134-146: the name prompt; the input is lowercased
            LET username == Lower(input)
                result == user_by_name(username)
            IN
            IF username = "quit"
            THEN /\ log' = Append(log, Shown("name", input, ""))
                 /\ cl' = "exited"
                 /\ last' = last
            ELSE IF username = ""
            THEN /\ log' = Append(log, Shown("name", input, ""))
                 /\ cl' = cl
                 /\ last' = last
            ELSE IF outcome = "transport_failure"
            THEN \* call_tool raises
                 /\ chat_loop_except("name", input)
                 /\ last' = last
            ELSE /\ last' = Call("verify_access", <<username>>,
                                 IF result = <<>> THEN NoneResult
                                 ELSE [kind |-> "role", role |-> result[1].role],
                                 <<>>, "none")
                 /\ IF result = <<>>
                    THEN /\ log' = Append(log, Shown("name", input, "Access denied"))
                         /\ cl' = "exited"
                    ELSE /\ log' = Append(log, Shown("name", input, result[1].role))
                         /\ cl' = cl
       ELSE \* lines 149-155: the query prompt and process_query
            /\ last' = last
            /\ IF input = "quit"
               THEN /\ log' = Append(log, Shown("query", input, ""))
                    /\ cl' = "exited"
               ELSE IF outcome = "transport_failure"
               THEN \* process_query raises
                    chat_loop_except("query", input)
               ELSE /\ log' = Append(log, Shown("query", input, "answer"))
                    /\ cl' = cl
  /\ self_username' = self_username
  /\ UNCHANGED <<catalog, gateway, inflight, bvars, pqvars>>

\* Lines 203-208 of main: chat_loop has returned, the finally block runs
\* cleanup.
main_finally ==
  /\ cl = "exited"
  /\ cl' = "closed"
  /\ UNCHANGED <<svars, pqvars, self_username, log>>

ChatNext ==
  \/ chat_loop
  \/ main_finally

\* A session at the console.
SpecChat == Init /\ [][ChatNext]_vars

SessionNext ==
  \/ ClientNext
  \/ process_query_again

\* Several calls of process_query on one MCPClient, one after the other.
SpecSession == Init /\ [][SessionNext]_vars

---------------------------------------------------------------------------
(* Claims about process_query, checked under SpecClient *)

\* The positions of history h whose assistant turn holds invocation b.
AssistantTurnsWith(h, b) ==
  {i \in DOMAIN h : h[i].role = "assistant" /\ b \in ToolUses(h[i].content)}

\* The positions of history h that are a tool_result for invocation id.
ToolResultsFor(h, id) ==
  {i \in DOMAIN h :
     /\ h[i].role = "user"
     /\ \E k \in DOMAIN h[i].content :
          /\ h[i].content[k].type = "tool_result"
          /\ h[i].content[k].tool_use_id = id}

\* C1: every tool invocation of a response is, in the history sent with any
\* later completion request, held by exactly one assistant turn and followed
\* by exactly one tool_result message carrying its id.
C1_EveryInvocationAnsweredOnce ==
  \A k \in DOMAIN sent : \A j \in 1..(k - 1) : \A b \in ToolUses(responses[j]) :
    /\ Cardinality(AssistantTurnsWith(sent[k], b)) = 1
    /\ Cardinality(ToolResultsFor(sent[k], b.id)) = 1
    /\ \A i \in AssistantTurnsWith(sent[k], b) : i + 1 \in ToolResultsFor(sent[k], b.id)

\* C2: process_query returns only after a response without tool invocation,
\* every invocation emitted in any round has been executed by then, and the
\* value returned is the accumulated text joined by newlines.
C2_ReturnsAfterLastInvocation ==
  cpc = "done" =>
    /\ ToolUses(responses[Len(responses)]) = {}
    /\ \A b \in Emitted : \E i \in DOMAIN executed : executed[i] = b.id
    /\ returned = Join(final_text)

---------------------------------------------------------------------------
(* Claims about the tools, checked under Spec *)

AccessDenied ==
  Text("Access denied. You are not permitted to view dishes from this restaurant.")

RestaurantNamed(inst) ==
  (CHOOSE i \in DOMAIN restaurants : restaurants[i].id = inst)

DishRowsOf(inst) ==
  LET found == SelectSeq(dishes, LAMBDA d : d.restaurant_id = inst) IN
  [i \in DOMAIN found |-> <<found[i].name, found[i].price>>]

IsChild(username) ==
  \E i \in DOMAIN users : users[i].username = username /\ users[i].role = "child"

IsParent(username) ==
  \E i \in DOMAIN users : users[i].username = username /\ users[i].role = "parent"

\* The order_dish call that leads to the next state resolves its restaurant, its
\* dish in that restaurant and its user; Then(role, price, u, inst) then holds.
OrderStep(Then(_, _, _, _)) ==
  last'.tool = "order_dish" =>
    LET u == Lower(last'.args[1])
        rs == SelectSeq(restaurants, LAMBDA r : r.name = last'.args[2])
        us == SelectSeq(users, LAMBDA x : x.username = u)
    IN  (rs # <<>> /\ us # <<>>) =>
          LET ds == SelectSeq(dishes, LAMBDA d : d.name = last'.args[3]
                                                 /\ d.restaurant_id = rs[1].id)
          IN  ds # <<>> => Then(us[1].role, ds[1].price, u, rs[1].id)

C3_Decision(role, price, u, inst) ==
  LET refuse == role = "child" /\ price > 1000 /\ ~GwCheck(u, "operate", inst) IN
  /\ refuse =>
       last'.result = [kind |-> "refusal", price |-> Fmt2(price), limit |-> "10.00"]
  /\ ~refuse =>
       last'.result = [kind |-> "confirmation", dish |-> last'.args[3],
                       restaurant |-> last'.args[2]]

\* C3: for an existing restaurant and dish and a seeded user, order_dish
\* refuses exactly when the user is a child, the price is above 10.00 and the
\* operate check on the restaurant is false at the time of the call; the
\* refusal names the price and 10.00 with two decimals, and every other call
\* returns the confirmation.
C3_OrderDishRefusesExactlyWhen == [][OrderStep(C3_Decision)]_vars

\* henry, without a grant, has just been refused Pepperoni Pizza of Pizza Palace.
C3_Witness ==
  /\ last.tool = "order_dish"
  /\ last.args = <<"henry", "Pizza Palace", "Pepperoni Pizza">>
  /\ last.result.kind = "refusal"
  /\ last.result.price = "10.99"
  /\ last.result.limit = "10.00"

C4_Consumed(role, price, u, inst) ==
  (role = "child" /\ price > 1000) =>
    IF GwCheck(u, "operate", inst)
    THEN /\ last'.result.kind = "confirmation"
         /\ ~GwDecide(roles', policy', u, "operate", inst)
    ELSE /\ last'.result.kind = "refusal"
         /\ ~GwDecide(roles', policy', u, "operate", inst)

\* A child comes to hold operate on a restaurant only by an approved operation
\* request.
C4_GrantOnlyByApproval ==
  (roles' = roles /\ policy' = policy) \/
  \A i \in DOMAIN users, r \in DOMAIN restaurants :
    (/\ users[i].role = "child"
     /\ ~GwCheck(users[i].username, "operate", restaurants[r].id)
     /\ GwCheck(users[i].username, "operate", restaurants[r].id)')
    => (last'.tool = "approve_opeartion_request" /\ last'.result = Granted)

HasApprovedAccess(username, inst) ==
  \E i \in DOMAIN requests :
    /\ requests[i].kind = "access"
    /\ requests[i].user = username
    /\ requests[i].inst = inst
    /\ requests[i].status = "approved"

\* C5: for every restaurant that does not allow children and every child who
\* has had no access request on it approved, list_dishes returns the
\* access-denied message (and so none of its dishes).
C5_RestrictedRestaurantDenied ==
  \A i \in DOMAIN users, r \in DOMAIN restaurants :
    (/\ users[i].role = "child"
     /\ ~restaurants[r].allowed_for_children
     /\ ~HasApprovedAccess(users[i].username, restaurants[r].id))
    => list_dishes_result(users[i].username, restaurants[r].name) = AccessDenied

\* henry has asked for access to Fancy French, nobody approved it, and his
\* list_dishes call was denied.
C5_Witness ==
  /\ last.tool = "list_dishes"
  /\ last.args = <<"henry", "Fancy French">>
  /\ last.result = AccessDenied
  /\ \E i \in DOMAIN requests :
       /\ requests[i].kind = "access"
       /\ requests[i].user = "henry"
       /\ requests[i].inst = 3
       /\ requests[i].status = "pending"

\* C6: once request_restaurant_access has acknowledged a request, a parent's
\* list_pending_restaurant_request for that restaurant returns its id with a
\* reason naming the requesting user and the restaurant; once
\* approve_restaurant_access has approved an access request, list_dishes of
\* the requester for its restaurant returns the restaurant's dishes.
C6_AccessRoundTrip ==
  /\ (last.tool = "request_restaurant_access" /\ last.result = Ack) =>
       \A p \in {x \in ListUsers : IsParent(x)} :
         LET listed == list_pending_restaurant_request_result(p, last.args[2], "reached")
         IN  /\ listed.kind = "rows"
             /\ \E k \in DOMAIN listed.rows :
                  /\ listed.rows[k].access_request_id = Len(requests)
                  /\ listed.rows[k].reason.user = Lower(last.args[1])
                  /\ listed.rows[k].reason.restaurant = last.args[2]
  /\ (last.tool = "approve_restaurant_access" /\ last.result = Granted) =>
       /\ last.args[2] \in DOMAIN requests
       /\ requests[last.args[2]].kind = "access"
       /\ requests[last.args[2]].status = "approved"
  /\ \A i \in DOMAIN requests :
       (requests[i].kind = "access" /\ requests[i].status = "approved") =>
         list_dishes_result(requests[i].user,
                            restaurants[RestaurantNamed(requests[i].inst)].name)
           = Rows(DishRowsOf(requests[i].inst))

\* joe has just approved henry's request for Fancy French.
C6_Witness ==
  /\ last.tool = "approve_restaurant_access"
  /\ last.args[1] = "joe"
  /\ last.result = Granted
  /\ requests[last.args[2]].user = "henry"
  /\ requests[last.args[2]].inst = 3
  /\ list_dishes_result("henry", "Fancy French").kind = "rows"

\* C7: a request becomes approved, and a role is assigned, only in a step of
\* approve_restaurant_access or approve_opeartion_request called with the
\* username of a parent; a call with a child's username approves nothing.
C7_OnlyParentsApprove ==
  [][ (\/ \E i \in DOMAIN requests :
            requests[i].status = "pending" /\ requests'[i].status = "approved"
       \/ ~(roles' \subseteq roles))
      => /\ last'.tool \in {"approve_restaurant_access", "approve_opeartion_request"}
         /\ last'.result = Granted
         /\ IsParent(last'.args[1]) ]_vars

\* henry tried to approve his own request; the gateway refused and the request
\* is still pending.
C7_Witness ==
  /\ last.tool \in {"approve_restaurant_access", "approve_opeartion_request"}
  /\ last.args[1] = "henry"
  /\ last.fault = "rejected"
  /\ last.args[2] \in DOMAIN requests
  /\ requests[last.args[2]].user = "henry"
  /\ requests[last.args[2]].status = "pending"

\* C8: whatever names a tool is called with, it returns a value and does not
\* raise (the gateway answering every call): an unknown restaurant or dish
\* gives a not-found string, verify_access of an unseeded name gives no role,
\* and the gateway holds no request for a name that does not resolve.
C8_NoToolRaisesOnNames ==
  /\ last.fault = "none" => last.result.kind # "raise"
  /\ (last.tool = "verify_access" /\ ~IsChild(last.args[1]) /\ ~IsParent(last.args[1]))
       => last.result = NoneResult
  /\ \A i \in DOMAIN requests :
       /\ IsChild(requests[i].user) \/ IsParent(requests[i].user)
       /\ \E r \in DOMAIN restaurants : restaurants[r].id = requests[i].inst

\* C9: when the gateway call of a request, list or approve tool fails (an
\* error status or a network error) the tool returns the failure string with
\* the status code and the body, and no request changes.
C9_GatewayFailureIsReturned ==
  [][ last'.fault \in {"upstream", "network", "rejected"} =>
        /\ last'.result.kind = "failure"
        /\ requests' = requests ]_vars

\* The ten names of the tool catalog.
CatalogNames ==
  { "verify_access", "list_restaurants", "list_dishes", "order_dish",
    "request_restaurant_access", "request_dish_approval",
    "list_pending_restaurant_request", "list_pending_dish_request",
    "approve_restaurant_access", "approve_operation_request" }

\* C10: a call dispatches to an operation exactly when its name is one of the
\* ten catalog names; any other name gives the unknown-tool result and runs
\* nothing.
C10_DispatchExactlyCatalog ==
  last.tool # "none" =>
    /\ last.tool \in CatalogNames => last.result.kind # "unknown_tool"
    /\ last.tool \notin CatalogNames =>
         (last.result.kind = "unknown_tool" /\ last.gw = <<>>)

---------------------------------------------------------------------------
(* Further claims about process_query, checked under SpecClient *)

\* The text of the segments of a response, in order.
TextsOf(content) == [i \in DOMAIN content |-> content[i].text]

\* C11: when the initial response holds no tool invocation, process_query
\* runs no tool, requests no further completion, does not raise, and returns
\* the text of its segments in order joined by newlines.
C11_TextOnlyReturnsText ==
  (responses # <<>> /\ ToolUses(response0) = {}) =>
    /\ cpc # "raised"
    /\ executed = <<>>
    /\ Len(sent) = 1
    /\ cpc = "done" => returned = Join(TextsOf(response0))

C11_Witness ==
  /\ cpc = "done"
  /\ Len(response0) = 2
  /\ ToolUses(response0) = {}
  /\ returned = "text1\ntext2"

\* C12: when the initial response is one tool invocation and the follow-up
\* response is text only, process_query runs that one tool, requests exactly
\* one further completion, and returns the trace line followed by the text
\* of the follow-up response.
C12_OneToolThenText ==
  ( /\ cpc = "done"
    /\ Len(response0) = 1
    /\ response0[1].type = "tool_use"
    /\ ToolUses(responses[2]) = {} ) =>
    /\ executed = <<response0[1].id>>
    /\ Len(sent) = 2
    /\ returned = Join(<<TraceLine(response0[1])>> \o TextsOf(responses[2]))

\* C19: a response with no content segment never makes process_query raise,
\* be it the initial response or one requested after a tool result.
C19_EmptyResponseNeverRaises ==
  (cpc = "raised" /\ responses # <<>>) => responses[Len(responses)] # <<>>

\* C20: a tool execution whose result is an error payload does not abort
\* process_query: the step that runs the tool appends the tool_result message
\* with the invocation's id and that payload to the history, requests the next
\* completion with that history, and goes on when the answer starts with text.
C20_ToolFailureIsSurfaced ==
  [][ Len(executed') = Len(executed) + 1 =>
        LET id == executed'[Len(executed')]
            h  == sent'[Len(sent')]
            r  == responses'[Len(responses')]
        IN /\ Len(sent') = Len(sent) + 1
           /\ Len(messages') = Len(messages) + 2
           /\ messages'[Len(messages') - 1].role = "assistant"
           /\ \E payload \in ToolResults :
                messages'[Len(messages')] = ToolResultMessage(id, payload)
           /\ Len(h) = Len(messages')
           /\ h[Len(h)] = messages'[Len(messages')]
           /\ (r # <<>> /\ r[1].type = "text") => cpc' = "loop" ]_vars

C20_Witness ==
  /\ cpc = "done"
  /\ Len(sent) = 2
  /\ sent[2][3] = ToolResultMessage(executed[1], "error")

---------------------------------------------------------------------------
(* Claims about a session, checked under SpecSession *)

RECURSIVE Flatten(_)
\* The messages of a sequence of histories, in order.
Flatten(hs) == IF hs = <<>> THEN <<>> ELSE Head(hs) \o Flatten(Tail(hs))

\* C18: every history sent to the model during the n-th call of process_query
\* starts with the messages of all earlier calls of the session, in order,
\* followed by the new query.
C18_HistoryPersists ==
  \A k \in DOMAIN sent :
    LET earlier == Flatten(past) IN
      /\ Len(sent[k]) > Len(earlier)
      /\ SubSeq(sent[k], 1, Len(earlier)) = earlier
      /\ sent[k][Len(earlier) + 1].role = "user"

---------------------------------------------------------------------------
(* Further claims about the tools, checked under Spec *)

\* C13: every tool lowercases the username it is called with before it looks
\* it up or hands it to the gateway: verify_access answers for a name as it
\* answers for its lowercase form, and every gateway call carries a lowercase
\* user.
C13_UsernamesLowercased ==
  /\ last.tool = "verify_access" =>
        LET row == user_by_name(Lower(last.args[1])) IN
        last.result = IF row = <<>> THEN NoneResult
                      ELSE [kind |-> "role", role |-> row[1].role]
  /\ \A i \in DOMAIN last.gw : last.gw[i].user = Lower(last.gw[i].user)

\* The order is by a child who holds no role assignment on a restaurant that
\* is not allowed for children: it is not confirmed.
C15_Unconfirmed(role, price, u, inst) ==
  ( /\ role = "child"
    /\ ~restaurants[RestaurantNamed(inst)].allowed_for_children
    /\ ~\E a \in roles : a.user = u /\ a.inst = inst )
  => last'.result.kind # "confirmation"

\* C15: a child who holds no role and no grant on a restaurant that is not
\* allowed for children gets no order confirmation from order_dish for any
\* dish of it, whatever the price.
C15_RestrictedRestaurantNoOrder == [][OrderStep(C15_Unconfirmed)]_vars

\* The order is one the claim lists: by a parent, by a child for a dish at or
\* below the threshold, or refused; the role assignments stay as they were.
C16_Frame(role, price, u, inst) ==
  (role = "parent" \/ price <= 1000 \/ last'.result.kind # "confirmation")
  => roles' = roles

\* C16: an order by a parent, a child's order of a dish priced at or below the
\* threshold, and every refused or not-found order leave all role assignments
\* of the gateway unchanged.
C16_RevocationOnlyWhenConsumed ==
  [][ /\ OrderStep(C16_Frame)
      /\ (last'.tool = "order_dish" /\ last'.result.kind # "confirmation")
           => roles' = roles ]_vars

\* The ids of the requests of one kind scoped to the restaurant called name
\* whose status is pending.
PendingFor(kind, name) ==
  {i \in DOMAIN requests :
     /\ requests[i].kind = kind
     /\ requests[i].status = "pending"
     /\ restaurants[RestaurantNamed(requests[i].inst)].name = name}

\* The ids a list tool returned.
ListedIds == {last.result.rows[k].access_request_id : k \in DOMAIN last.result.rows}

\* What the last call, when it is a list tool that returned rows, has listed.
C17_ListsExactlyPending ==
  /\ (last.tool = "list_pending_restaurant_request" /\ last.result.kind = "rows")
       => ListedIds = PendingFor("access", last.args[2])
  /\ (last.tool = "list_pending_dish_request" /\ last.result.kind = "rows")
       => ListedIds = PendingFor("operation", last.args[2])

\* C17: list_pending_restaurant_request and list_pending_dish_request for a
\* restaurant return exactly the requests scoped to it whose status is
\* pending; a request is created pending, stays scoped as it was created, and
\* once approved stays approved, so that no later list holds it.
C17_PendingListsTrackLifecycle ==
  [][ /\ C17_ListsExactlyPending'
      /\ Len(requests') >= Len(requests)
      /\ \A i \in DOMAIN requests :
           /\ requests'[i].kind = requests[i].kind
           /\ requests'[i].inst = requests[i].inst
           /\ requests[i].status = "approved" => requests'[i].status = "approved"
      /\ \A i \in DOMAIN requests' \ DOMAIN requests :
           requests'[i].status = "pending" ]_vars

\* joe lists the access requests for Fancy French after one was approved and
\* while another is pending: the list holds the pending one only.
C17_Witness ==
  /\ last.tool = "list_pending_restaurant_request"
  /\ last.args[2] = "Fancy French"
  /\ last.result.kind = "rows"
  /\ Len(last.result.rows) = 1
  /\ \E i \in DOMAIN requests :
       /\ requests[i].kind = "access"
       /\ requests[i].inst = 3
       /\ requests[i].status = "approved"
       /\ i \notin ListedIds

---------------------------------------------------------------------------
(* Claims about order_dish calls in flight together, checked under SpecOrders *)

\* The sessions whose order of a dish above the threshold, placed by child u
\* at restaurant inst, has returned a confirmation.
ConfirmedAbove(u, inst) ==
  {s \in Sessions :
     /\ inflight[s].pc = "done"
     /\ inflight[s].result.kind = "confirmation"
     /\ Lower(inflight[s].args[1]) = u
     /\ \E r \in DOMAIN restaurants :
          /\ restaurants[r].id = inst
          /\ restaurants[r].name = inflight[s].args[2]
     /\ \E d \in DOMAIN dishes :
          /\ dishes[d].restaurant_id = inst
          /\ dishes[d].name = inflight[s].args[3]
          /\ dishes[d].price > 1000}

\* The operate grants issued to u on inst: the approved operation requests.
GrantsIssued(u, inst) ==
  {i \in DOMAIN requests :
     /\ requests[i].kind = "operation"
     /\ requests[i].user = u
     /\ requests[i].inst = inst
     /\ requests[i].status = "approved"}

\* C14: however the check and the revocation of order_dish calls in flight
\* together interleave, a child gets no more confirmations for dishes above
\* the threshold at a restaurant than operate grants were issued to the child
\* on it: with one grant, at most one.
C14_OneGrantOneOrder ==
  \A i \in DOMAIN users, r \in DOMAIN restaurants :
    users[i].role = "child" =>
      Cardinality(ConfirmedAbove(users[i].username, restaurants[r].id))
        <= Cardinality(GrantsIssued(users[i].username, restaurants[r].id))

---------------------------------------------------------------------------
(* Claims about the catalog store, checked under Spec *)

\* C23: whatever the tools are called with, and in whatever order, the tables
\* users, restaurants and dishes hold the rows bootstrap seeded: no role, no
\* eligibility flag, no price and no owning restaurant changes, no row is
\* added or removed.
C23_ToolsNeverWriteCatalog ==
  /\ users = users_data
  /\ restaurants = restaurants_data
  /\ dishes = dishes_data

\* Requests were made and approved and an order was placed on a grant: the
\* mutating tools have all acted.
C23_Witness ==
  /\ last.tool = "order_dish"
  /\ last.result.kind = "confirmation"
  /\ Len(last.gw) = 2
  /\ \E i, j \in DOMAIN requests :
       /\ requests[i].kind = "access"
       /\ requests[j].kind = "operation"
       /\ requests[j].status = "approved"
  /\ C23_ToolsNeverWriteCatalog

---------------------------------------------------------------------------
(* Claims about init_db, checked under SpecBootstrap *)

\* Every gateway step of bootstrap has completed.
GatewayBootstrapped ==
  /\ instances = {r.id : r \in SeqToSet(restaurants_data)}
  /\ BootstrapSynced \subseteq synced
  /\ BootstrapRoles \subseteq roles

\* C24: whenever the committed restaurants table is not empty every gateway
\* step of bootstrap has completed; a run of init_db that fails commits no
\* row and the run after it inserts the rows again; a run that finds
\* restaurants not empty changes neither the tables nor the gateway.
C24_BootstrapRerunnable ==
  [][ /\ restaurants' # <<>> => GatewayBootstrapped'
      /\ bpc' = "failed" =>
           /\ catalog' = catalog
           /\ restaurants' = <<>>
           /\ uncommitted' = NoRows
      /\ (bpc = "failed" /\ bpc' # "failed") =>
           (bpc' = "instances" /\ uncommitted' = SeedRows)
      /\ restaurants # <<>> =>
           /\ catalog' = catalog
           /\ gateway' = gateway
           /\ instances' = instances ]_vars

\* A run failed, the next one seeded and committed, a third one found the
\* tables filled.
C24_Witness ==
  /\ outcomes = <<"failed", "seeded", "skipped">>
  /\ restaurants = restaurants_data
  /\ users = users_data
  /\ dishes = dishes_data
  /\ roles = BootstrapRoles

---------------------------------------------------------------------------
(* Claims about the front-end, checked under SpecChat *)

\* C21: a transport failure raised during a turn is caught and printed and
\* the loop goes on reading input; an input of quit leaves the loop; once the
\* loop is left the only thing that happens is cleanup, and cleanup runs at no
\* other time.
C21_TransportFailureAbortsTurnOnly ==
  [][ /\ (Len(log') = Len(log) + 1 /\ log'[Len(log')].printed = "Error") =>
           /\ cl' = "loop"
           /\ self_username' = self_username
      /\ (Len(log') = Len(log) + 1 /\ Lower(log'[Len(log')].input) = "quit") =>
           cl' = "exited"
      /\ cl = "exited" => (cl' = "closed" /\ log' = log)
      /\ cl' = "closed" => cl = "exited" ]_vars

\* A turn failed, the next input was quit, and cleanup has run.
C21_Witness ==
  /\ cl = "closed"
  /\ Len(log) = 2
  /\ log[1].printed = "Error"
  /\ log[2].input = "quit"

\* C22: once verify_access has returned a role for the name entered, the
\* session holds that name, every later input is read at the query prompt
\* and, unless it is quit, passed to process_query; a name verify_access has
\* no role for prints "Access denied" and ends the session.
C22_SessionProgression ==
  \A i \in DOMAIN log :
    /\ (log[i].prompt = "name" /\ log[i].printed \in {"parent", "child"}) =>
         /\ self_username = Lower(log[i].input)
         /\ \A j \in DOMAIN log : j > i =>
              /\ log[j].prompt = "query"
              /\ log[j].input # "quit" => log[j].printed \in {"answer", "Error"}
    /\ log[i].printed = "Access denied" => (i = Len(log) /\ cl # "loop")

=============================================================================
